---- MODULE Spec2Model ----
(***************************************************************************)
(* Model of the Singularity resource updaters:                             *)
(*   - the core updater (README.md, "Update core.js"): parseAsset,         *)
(*     processChannel, main;                                               *)
(*   - the rules updater (scripts/update_rules.js): fetchJson,             *)
(*     buildRulesIndex, main.                                              *)
(* Strings are sequences of one-character strings, so that includes,       *)
(* startsWith, endsWith, split, join and replace are computed, not assumed.*)
(***************************************************************************)
EXTENDS Integers, Sequences, FiniteSets, TLC

VARIABLES
    envOutput     \* whether process.env.GITHUB_OUTPUT is set

VARIABLES
    pa_pc,        \* parseAsset harness: "call" before the call, "ret" after
    pa_form,      \* how the argument was assembled (prefix, tokens, suffix, inserted marker)
    pa_name,      \* the assetName argument
    pa_result     \* the value returned by parseAsset

paVars == <<pa_pc, pa_form, pa_name, pa_result>>

VARIABLES
    fj_pc,        \* fetchJson (rules updater): "attempt", "sleep", "returned", "thrown"
    fj_retries,   \* the retries parameter
    fj_i,         \* the loop counter i
    fj_trace,     \* the requests made (with their responses) and the delays waited, in order
    fj_result     \* the value returned

fjVars == <<fj_pc, fj_retries, fj_i, fj_trace, fj_result>>

VARIABLES
    liteFile,      \* static/rules/lite.json as persisted
    fullFile,      \* static/rules/full.json as persisted
    versionFile,   \* static/rules/rule.version as persisted
    rulesFiles0,   \* the three files when the current run started
    r_pc,          \* position of the rules updater's main
    r_newVersion,  \* main: newVersion
    r_liteRules,   \* main: liteRules
    r_fullRules,   \* main: fullRules
    r_indexed,     \* whether this run has computed liteRules and fullRules
    r_signals,     \* lines appended to GITHUB_OUTPUT in this run
    r_written,     \* the files written in this run, in order
    r_error,       \* the error caught by main's catch ("none" if none)
    r_previous     \* the version the previous run fetched, if it completed normally

rulesVars == <<liteFile, fullFile, versionFile, rulesFiles0, r_pc, r_newVersion, r_liteRules,
               r_fullRules, r_indexed, r_signals, r_written, r_error, r_previous>>

VARIABLES
    ch_pc,        \* processChannel harness: "call" before the call, "ret" after
    ch_tag,       \* releaseData.tag_name
    ch_assets,    \* releaseData.assets
    ch_out        \* what processChannel did: the error thrown, or the manifest returned

chVars == <<ch_pc, ch_tag, ch_assets, ch_out>>

VARIABLES
    bi_pc,        \* buildRulesIndex harness: "call" before the call, "ret" after
    bi_items,     \* the treeItems argument
    bi_prefix,    \* the prefix argument
    bi_result     \* the value returned by buildRulesIndex

biVars == <<bi_pc, bi_items, bi_prefix, bi_result>>

VARIABLES
    coreFile,        \* static/core_info.json as persisted
    coreFile0,       \* its content when the current run started
    c_pc,            \* position of the core updater's main
    c_currentInfo,   \* main: currentInfo
    c_stableRelease, \* main: stableRelease
    c_allNull,       \* main: allReleases was null
    c_alphaRelease,  \* main: alphaRelease
    c_alphaSource,   \* main: alphaSource
    c_output,        \* main: output
    c_hasUpdate,     \* main: hasUpdate
    c_signals,       \* lines appended to GITHUB_OUTPUT in this run
    c_writes,        \* number of writes of core_info.json in this run
    c_recomputed,    \* channels for which processChannel returned in this run
    c_triggered,     \* channels for which processChannel was called in this run
    c_error,         \* the error caught by main's catch ("none" if none)
    c_previous       \* what the previous run fetched, if it completed normally

coreVars == <<coreFile, coreFile0, c_pc, c_currentInfo, c_stableRelease, c_allNull,
              c_alphaRelease, c_alphaSource, c_output, c_hasUpdate, c_signals, c_writes,
              c_recomputed, c_triggered, c_error, c_previous>>

(***************************************************************************)
(* String primitives (JavaScript String.prototype semantics).              *)
(***************************************************************************)
StartsWith(s, p) == Len(s) >= Len(p) /\ SubSeq(s, 1, Len(p)) = p

EndsWith(s, p) == Len(s) >= Len(p) /\ SubSeq(s, Len(s) - Len(p) + 1, Len(s)) = p

Includes(s, p) == \E i \in 1..(Len(s) - Len(p) + 1) : SubSeq(s, i, i + Len(p) - 1) = p

DropPrefix(s, p) == IF StartsWith(s, p) THEN SubSeq(s, Len(p) + 1, Len(s)) ELSE s

DropSuffix(s, p) == IF EndsWith(s, p) THEN SubSeq(s, 1, Len(s) - Len(p)) ELSE s

RECURSIVE SplitAcc(_, _, _)
SplitAcc(s, sep, cur) ==
    IF s = <<>> THEN <<cur>>
    ELSE IF Head(s) = sep THEN <<cur>> \o SplitAcc(Tail(s), sep, <<>>)
         ELSE SplitAcc(Tail(s), sep, Append(cur, Head(s)))

Split(s, sep) == SplitAcc(s, sep, <<>>)

RECURSIVE Join(_, _)
Join(parts, sep) ==
    IF parts = <<>> THEN <<>>
    ELSE IF Len(parts) = 1 THEN parts[1]
         ELSE parts[1] \o <<sep>> \o Join(Tail(parts), sep)

(***************************************************************************)
(* String literals of the core updater.                                    *)
(***************************************************************************)
Dash == "-"

S_prefix == <<"s","i","n","g","-","b","o","x","-">>
S_zip == <<".","z","i","p">>
S_targz == <<".","t","a","r",".","g","z">>
S_deb == <<".","d","e","b">>
S_rpm == <<".","r","p","m">>
S_apk == <<".","a","p","k">>
S_ipk == <<".","i","p","k">>
S_android == <<"a","n","d","r","o","i","d">>
S_ios == <<"i","o","s">>
S_sbom == <<"s","b","o","m">>
S_windows == <<"w","i","n","d","o","w","s">>
S_darwin == <<"d","a","r","w","i","n">>
S_macos == <<"m","a","c","o","s">>
S_linux == <<"l","i","n","u","x">>
S_freebsd == <<"f","r","e","e","b","s","d">>
S_legacy == <<"l","e","g","a","c","y">>
S_softfloat == <<"s","o","f","t","f","l","o","a","t">>

osList == <<S_windows, S_darwin, S_linux, S_freebsd>>

canonicalOs == {S_windows, S_macos, S_linux, S_freebsd}

InList(x, list) == \E k \in 1..Len(list) : list[k] = x

(***************************************************************************)
(* parseAsset (README.md 73-125).  The result is a record; ok = FALSE is   *)
(* the null return.                                                        *)
(***************************************************************************)
Null == [ok |-> FALSE, os |-> <<>>, arch |-> <<>>, filename |-> <<>>]

Rejected_noSbom(assetName) ==
    \/ Includes(assetName, S_android)
    \/ Includes(assetName, S_ios)
    \/ EndsWith(assetName, S_deb)
    \/ EndsWith(assetName, S_rpm)
    \/ EndsWith(assetName, S_apk)
    \/ EndsWith(assetName, S_ipk)

Rejected(assetName) ==
    \/ Includes(assetName, S_android)
    \/ Includes(assetName, S_ios)
    \/ Includes(assetName, S_sbom)
    \/ EndsWith(assetName, S_deb)
    \/ EndsWith(assetName, S_rpm)
    \/ EndsWith(assetName, S_apk)
    \/ EndsWith(assetName, S_ipk)

\* .replace(/^sing-box-/, '').replace(/\.(tar\.gz|zip)$/, ''): one suffix is removed
StripArchiveSuffix(s) ==
    IF EndsWith(s, S_targz) THEN DropSuffix(s, S_targz)
    ELSE IF EndsWith(s, S_zip) THEN DropSuffix(s, S_zip)
    ELSE s

baseNameOf(assetName) == StripArchiveSuffix(DropPrefix(assetName, S_prefix))

\* parts.findIndex(part => osList.includes(part)); 0 stands for -1 (1-based)
findOsIndex(parts) ==
    IF \E k \in 1..Len(parts) : InList(parts[k], osList)
    THEN CHOOSE k \in 1..Len(parts) :
            /\ InList(parts[k], osList)
            /\ \A j \in 1..(k - 1) : ~InList(parts[j], osList)
    ELSE 0

variantOf(parts, osIndex) == Join(SubSeq(parts, osIndex + 2, Len(parts)), Dash)

normalizeOs_keepDarwin(os) == os

normalizeOs(os) == IF os = S_darwin THEN S_macos ELSE os

normalizeArch_softfloatFirst(arch, variant) ==
    IF variant = <<>> THEN arch
    ELSE IF Includes(variant, S_softfloat) THEN arch \o <<Dash>> \o S_softfloat
    ELSE IF Includes(variant, S_legacy) THEN arch \o <<Dash>> \o S_legacy
    ELSE arch \o <<Dash>> \o variant

normalizeArch(arch, variant) ==
    IF variant = <<>> THEN arch
    ELSE IF Includes(variant, S_legacy) THEN arch \o <<Dash>> \o S_legacy
    ELSE IF Includes(variant, S_softfloat) THEN arch \o <<Dash>> \o S_softfloat
    ELSE arch \o <<Dash>> \o variant

parseAsset(assetName) ==
    IF Rejected(assetName) THEN Null
    ELSE IF ~StartsWith(assetName, S_prefix) THEN Null
    ELSE IF ~EndsWith(assetName, S_targz) /\ ~EndsWith(assetName, S_zip) THEN Null
    ELSE LET parts == Split(baseNameOf(assetName), Dash)
             osIndex == findOsIndex(parts)
         IN IF osIndex = 0 THEN Null
            ELSE IF osIndex + 1 > Len(parts) \/ parts[osIndex + 1] = <<>> THEN Null
            ELSE LET os == normalizeOs(parts[osIndex])
                     arch == parts[osIndex + 1]
                     variant == variantOf(parts, osIndex)
                 IN IF os \notin canonicalOs THEN Null
                    ELSE [ok |-> TRUE, os |-> os,
                          arch |-> normalizeArch(arch, variant),
                          filename |-> assetName]

(***************************************************************************)
(* Inputs of parseAsset: names assembled from tokens, and well-formed      *)
(* names with one marker inserted at every character position.             *)
(***************************************************************************)
MaxTokens == 4

T_amd64 == <<"a","m","d","6","4">>
T_v3 == <<"v","3">>
T_linuxx == <<"l","i","n","u","x","x">>

Tokens == {S_linux, S_darwin, T_amd64, S_legacy, S_softfloat, T_v3, T_linuxx, <<>>}

Prefixes == {S_prefix, <<>>}

Suffixes == {S_zip, S_targz, <<>>}

TokenSeqs == UNION {[1..n -> Tokens] : n \in 0..MaxTokens}

InsertAt(s, k, m) == SubSeq(s, 1, k) \o m \o SubSeq(s, k + 1, Len(s))

MobileMarkers == {S_android, S_ios}

SbomMarkers == {S_sbom}

PackageMarkers == {S_deb, S_rpm, S_apk, S_ipk}

Markers == MobileMarkers \cup SbomMarkers \cup PackageMarkers

NoMarker == <<>>

BaseName(f) == f.prefix \o Join(f.tokens, Dash) \o f.suffix

RenderName(f) == InsertAt(BaseName(f), f.pos, f.marker)

\* a name of the form sing-box-{os}-{arch}[-{variant tokens}].{zip|tar.gz}
FixedForm(f) ==
    /\ f.prefix = S_prefix
    /\ f.suffix \in {S_zip, S_targz}
    /\ Len(f.tokens) >= 2
    /\ InList(f.tokens[1], osList)
    /\ \A k \in 1..Len(f.tokens) : f.tokens[k] # <<>>

PlainForms ==
    [prefix : Prefixes, tokens : TokenSeqs, suffix : Suffixes, marker : {NoMarker}, pos : {0}]

MarkedBases ==
    { [prefix |-> S_prefix, tokens |-> <<S_linux, T_amd64>>, suffix |-> S_zip],
      [prefix |-> S_prefix, tokens |-> <<S_darwin, T_amd64, S_legacy>>, suffix |-> S_targz] }

MarkedForms ==
    UNION { { [prefix |-> b.prefix, tokens |-> b.tokens, suffix |-> b.suffix,
               marker |-> m, pos |-> k] : m \in Markers, k \in 0..Len(BaseName(b)) }
            : b \in MarkedBases }

paInit ==
    /\ pa_pc = "call"
    /\ pa_form \in PlainForms \cup MarkedForms
    /\ pa_name = RenderName(pa_form)
    /\ pa_result = Null

ParseAssetCall ==
    /\ pa_pc = "call"
    /\ pa_result' = parseAsset(pa_name)
    /\ pa_pc' = "ret"
    /\ UNCHANGED <<pa_form, pa_name>>
    /\ UNCHANGED <<envOutput, chVars, biVars, coreVars, fjVars, rulesVars>>


(***************************************************************************)
(* Core updater: data.                                                     *)
(***************************************************************************)
MaxAssets == 2
MaxReleases == 2
MaxTime == 2

T_v1 == <<"v","1">>
T_v2 == <<"v","2">>

Tags == {T_v1, T_v2}

Times == 1..MaxTime

Undefined == <<"undefined">>

RESOURCE_REPO == <<"Chen-ce/singularity-resources">>

\* a section of core_info.json: missing key, {} or a channel manifest
AbsentSection == [present |-> FALSE, manifest |-> FALSE, version |-> Undefined,
                  tag |-> Undefined, downloads |-> {}]

EmptyObject == [present |-> TRUE, manifest |-> FALSE, version |-> Undefined,
                tag |-> Undefined, downloads |-> {}]

MissingFile == [exists |-> FALSE, updated_at |-> 0, stable |-> AbsentSection, alpha |-> AbsentSection]

\* readLocalJson(path) || {}
readLocalJson(file) == [stable |-> file.stable, alpha |-> file.alpha]

\* x || {}
OrEmptyObject(section) == IF section.present THEN section ELSE EmptyObject

\* the core updater's fetchJson: the parsed body, or null on any failure
NoRelease == [ok |-> FALSE, tag_name |-> Undefined]

Release(tag) == [ok |-> TRUE, tag_name |-> tag]

\* allReleases.find(r => r.prerelease === true)
RECURSIVE findPrerelease(_)
findPrerelease(list) ==
    IF list = <<>> THEN NoRelease
    ELSE IF Head(list).prerelease THEN Release(Head(list).tag_name)
         ELSE findPrerelease(Tail(list))

ReleaseHeads == [tag_name : Tags, prerelease : BOOLEAN]

ReleaseLists == UNION {[1..n -> ReleaseHeads] : n \in 0..MaxReleases}

\* assets of a release: a name and what the artifact pipeline does with the asset
A_linux_zip == S_prefix \o S_linux \o <<Dash>> \o T_amd64 \o S_zip
A_linux_targz == S_prefix \o S_linux \o <<Dash>> \o T_amd64 \o S_targz
A_darwin_zip == S_prefix \o S_darwin \o <<Dash>> \o T_amd64 \o S_zip
A_linux_deb == S_prefix \o S_linux \o <<Dash>> \o T_amd64 \o S_deb

Asset(name, pipeline) ==
    [name |-> name, browser_download_url |-> <<"upstream">> \o name, pipeline |-> pipeline]

Assets ==
    { Asset(A_linux_zip, "ok"), Asset(A_linux_targz, "ok"), Asset(A_darwin_zip, "ok"),
      Asset(A_linux_zip, "download_error"), Asset(A_darwin_zip, "unpack_error"),
      Asset(A_linux_targz, "binary_not_found"), Asset(A_linux_deb, "ok") }

AssetLists == UNION {[1..n -> Assets] : n \in 0..MaxAssets}

(***************************************************************************)
(* processChannel (README.md 130-211).                                     *)
(***************************************************************************)
cleanZipName_upstreamName(info) == info.filename

cleanZipName(info) ==
    <<"c","o","r","e","-">> \o info.os \o <<Dash>> \o info.arch \o S_zip

canonicalUrl(tag_name, info) ==
    <<"https://github.com/">> \o RESOURCE_REPO \o <<"/releases/download/">> \o tag_name
        \o <<"/">> \o cleanZipName(info)

\* downloadMap[info.os][info.arch] = url
putDownload(downloadMap, info, url) ==
    {e \in downloadMap : ~(e.os = info.os /\ e.arch = info.arch)}
        \cup {[os |-> info.os, arch |-> info.arch, url |-> url]}

\* the loop over releaseData.assets; extDirs and stageDirs are the ext_* and
\* stage_* directories that exist in tempDir
RECURSIVE assetLoop(_, _, _, _, _)
assetLoop(assets, tag_name, downloadMap, extDirs, stageDirs) ==
    IF assets = <<>> THEN [thrown |-> "none", downloads |-> downloadMap]
    ELSE LET asset == Head(assets)
             info == parseAsset(asset.name)
             dir == <<info.os, info.arch>>
         IN IF ~info.ok
            THEN assetLoop(Tail(assets), tag_name, downloadMap, extDirs, stageDirs)
            ELSE IF asset.pipeline = "download_error"
            THEN assetLoop(Tail(assets), tag_name, downloadMap, extDirs, stageDirs)
            ELSE IF dir \in extDirs
            THEN [thrown |-> "EEXIST", downloads |-> downloadMap]
            ELSE IF asset.pipeline = "unpack_error"
            THEN [thrown |-> "ExecError", downloads |-> downloadMap]
            ELSE IF asset.pipeline = "binary_not_found"
            THEN assetLoop(Tail(assets), tag_name, downloadMap, extDirs \cup {dir}, stageDirs)
            ELSE IF dir \in stageDirs
            THEN [thrown |-> "EEXIST", downloads |-> downloadMap]
            ELSE assetLoop(Tail(assets), tag_name,
                           putDownload(downloadMap, info, canonicalUrl(tag_name, info)),
                           extDirs \cup {dir}, stageDirs \cup {dir})

\* tag_name.replace(/^v/, '')
versionOf(tag_name) == DropPrefix(tag_name, <<"v">>)

processChannel(tag_name, assets) ==
    LET r == assetLoop(assets, tag_name, {}, {}, {})
    IN [thrown |-> r.thrown,
        result |-> [present |-> TRUE, manifest |-> TRUE, version |-> versionOf(tag_name),
                    tag |-> tag_name, downloads |-> r.downloads]]

\* what processChannel can do for a release with this tag, over the asset lists
\* and pipeline outcomes the release may carry
ChannelResults == [t \in Tags |-> {processChannel(t, assets) : assets \in AssetLists}]

NoOutcome == [thrown |-> "none", result |-> AbsentSection]

chInit ==
    /\ ch_pc = "call"
    /\ ch_tag \in Tags
    /\ ch_assets \in AssetLists
    /\ ch_out = NoOutcome

ProcessChannelCall ==
    /\ ch_pc = "call"
    /\ ch_out' = processChannel(ch_tag, ch_assets)
    /\ ch_pc' = "ret"
    /\ UNCHANGED <<ch_tag, ch_assets>>
    /\ UNCHANGED <<envOutput, paVars, biVars, coreVars, fjVars, rulesVars>>

chIdle ==
    /\ ch_pc = "idle"
    /\ ch_tag = Undefined
    /\ ch_assets = <<>>
    /\ ch_out = NoOutcome

(***************************************************************************)
(* main of the core updater (README.md 215-298).                           *)
(***************************************************************************)
initialOutput_noCarryOver(currentInfo, now) ==
    [updated_at |-> now,
     stable |-> OrEmptyObject(currentInfo.stable),
     alpha |-> EmptyObject]

initialOutput(currentInfo, now) ==
    [updated_at |-> now,
     stable |-> OrEmptyObject(currentInfo.stable),
     alpha |-> OrEmptyObject(currentInfo.alpha)]

stableNeedsUpdate_ignoresTag(stableRelease, currentStableVer) == stableRelease.ok

stableNeedsUpdate(stableRelease, currentStableVer) ==
    stableRelease.ok /\ stableRelease.tag_name # currentStableVer

currentAlphaDownloadsEmpty(currentInfo) ==
    ~currentInfo.alpha.manifest \/ currentInfo.alpha.downloads = {}

alphaNeedsUpdate(currentInfo, alphaRelease) ==
    \/ currentAlphaDownloadsEmpty(currentInfo)
    \/ (alphaRelease.ok /\ alphaRelease.tag_name # currentInfo.alpha.tag)

publishSignals(channel, tag_name) ==
    IF envOutput
    THEN {<<"do_" \o channel, <<"true">> >>, <<channel \o "_tag", tag_name>>}
    ELSE {}

coreOthers == <<envOutput, paVars, chVars, biVars, fjVars, rulesVars>>

coreLocals == <<c_currentInfo, c_stableRelease, c_allNull, c_alphaRelease, c_alphaSource,
                c_output, c_hasUpdate>>

coreHistory == <<c_signals, c_writes, c_recomputed, c_triggered, c_error>>

\* no previous run, or one that ended in the catch
NoPreviousCore == [completed |-> FALSE, stableRelease |-> NoRelease,
                   alphaRelease |-> NoRelease, alphaSource |-> NoRelease]

coreInit ==
    /\ coreFile = MissingFile
    /\ coreFile0 = MissingFile
    /\ c_pc = "start"
    /\ c_currentInfo = readLocalJson(MissingFile)
    /\ c_stableRelease = NoRelease
    /\ c_allNull = FALSE
    /\ c_alphaRelease = NoRelease
    /\ c_alphaSource = NoRelease
    /\ c_output = initialOutput(readLocalJson(MissingFile), 0)
    /\ c_hasUpdate = FALSE
    /\ c_signals = {}
    /\ c_writes = 0
    /\ c_recomputed = {}
    /\ c_triggered = {}
    /\ c_error = "none"
    /\ c_previous = NoPreviousCore

\* lines 221-224: read the persisted manifest
MainRead ==
    /\ c_pc = "start"
    /\ UNCHANGED coreOthers
    /\ UNCHANGED c_previous
    /\ c_currentInfo' = readLocalJson(coreFile)
    /\ c_pc' = "fetchStable"
    /\ UNCHANGED <<coreFile, coreFile0, c_stableRelease, c_allNull, c_alphaRelease,
                   c_alphaSource, c_output, c_hasUpdate>>
    /\ UNCHANGED coreHistory

\* line 228: releases/latest
MainFetchStable ==
    /\ c_pc = "fetchStable"
    /\ UNCHANGED coreOthers
    /\ UNCHANGED c_previous
    /\ \E r \in {NoRelease} \cup {Release(t) : t \in Tags} : c_stableRelease' = r
    /\ c_pc' = "fetchAll"
    /\ UNCHANGED <<coreFile, coreFile0, c_currentInfo, c_allNull, c_alphaRelease,
                   c_alphaSource, c_output, c_hasUpdate>>
    /\ UNCHANGED coreHistory

\* lines 229-241: releases?per_page=10, find the prerelease, prepare output
MainFetchAllNull ==
    /\ c_pc = "fetchAll"
    /\ UNCHANGED coreOthers
    /\ UNCHANGED c_previous
    /\ c_allNull' = TRUE
    /\ c_error' = "TypeError"
    /\ c_pc' = "exit1"
    /\ UNCHANGED <<coreFile, coreFile0, c_currentInfo, c_stableRelease,
                   c_alphaRelease, c_alphaSource, c_output, c_hasUpdate>>
    /\ UNCHANGED <<c_signals, c_writes, c_recomputed, c_triggered>>

MainFetchAll ==
    /\ c_pc = "fetchAll"
    /\ UNCHANGED coreOthers
    /\ UNCHANGED c_previous
    /\ \E allReleases \in ReleaseLists, now \in Times :
          /\ c_alphaRelease' = findPrerelease(allReleases)
          /\ c_output' = initialOutput(c_currentInfo, now)
    /\ c_hasUpdate' = FALSE
    /\ c_pc' = "stable"
    /\ UNCHANGED <<coreFile, coreFile0, c_currentInfo, c_stableRelease, c_allNull,
                   c_alphaSource>>
    /\ UNCHANGED coreHistory

\* lines 243-255
MainStable ==
    /\ c_pc = "stable"
    /\ UNCHANGED coreOthers
    /\ UNCHANGED c_previous
    /\ IF stableNeedsUpdate(c_stableRelease, c_currentInfo.stable.tag)
       THEN \E call \in ChannelResults[c_stableRelease.tag_name] :
                 /\ c_triggered' = c_triggered \cup {"stable"}
                 /\ IF call.thrown # "none"
                    THEN /\ c_error' = call.thrown
                         /\ c_pc' = "exit1"
                         /\ UNCHANGED <<c_output, c_hasUpdate, c_signals, c_recomputed>>
                    ELSE /\ c_output' = [c_output EXCEPT !.stable = call.result]
                         /\ c_hasUpdate' = TRUE
                         /\ c_signals' = c_signals \cup publishSignals("stable", c_stableRelease.tag_name)
                         /\ c_recomputed' = c_recomputed \cup {"stable"}
                         /\ c_pc' = "alpha"
                         /\ UNCHANGED c_error
       ELSE /\ c_pc' = "alpha"
            /\ UNCHANGED <<c_output, c_hasUpdate, c_signals, c_recomputed, c_triggered,
                           c_error>>
    /\ UNCHANGED <<coreFile, coreFile0, c_currentInfo, c_stableRelease, c_allNull,
                   c_alphaRelease, c_alphaSource, c_writes>>

\* lines 260-263: alphaSource, with the fetch of releases/tags/{currentAlphaVer}
alphaSources(alphaRelease, currentAlphaVer) ==
    IF ~alphaRelease.ok /\ currentAlphaVer # Undefined
    THEN {NoRelease, Release(currentAlphaVer)}
    ELSE {alphaRelease}

\* lines 257-276
MainAlpha ==
    /\ c_pc = "alpha"
    /\ UNCHANGED coreOthers
    /\ UNCHANGED c_previous
    /\ \E alphaSource \in alphaSources(c_alphaRelease, c_currentInfo.alpha.tag) :
          /\ c_alphaSource' = alphaSource
          /\ IF alphaSource.ok /\ alphaNeedsUpdate(c_currentInfo, c_alphaRelease)
             THEN \E call \in ChannelResults[alphaSource.tag_name] :
                       /\ c_triggered' = c_triggered \cup {"alpha"}
                       /\ IF call.thrown # "none"
                          THEN /\ c_error' = call.thrown
                               /\ c_pc' = "exit1"
                               /\ UNCHANGED <<c_output, c_hasUpdate, c_signals, c_recomputed>>
                          ELSE /\ c_output' = [c_output EXCEPT !.alpha = call.result]
                               /\ c_hasUpdate' = TRUE
                               /\ c_signals' = c_signals \cup publishSignals("alpha", alphaSource.tag_name)
                               /\ c_recomputed' = c_recomputed \cup {"alpha"}
                               /\ c_pc' = "write"
                               /\ UNCHANGED c_error
             ELSE /\ c_pc' = "write"
                  /\ UNCHANGED <<c_output, c_hasUpdate, c_signals, c_recomputed, c_triggered,
                                 c_error>>
    /\ UNCHANGED <<coreFile, coreFile0, c_currentInfo, c_stableRelease, c_allNull,
                   c_alphaRelease, c_writes>>

\* JSON.stringify(output) written to core_info.json
documentOf(output) ==
    [exists |-> TRUE, updated_at |-> output.updated_at, stable |-> output.stable,
     alpha |-> output.alpha]

\* lines 278-292
MainWrite ==
    /\ c_pc = "write"
    /\ UNCHANGED coreOthers
    /\ UNCHANGED c_previous
    /\ IF c_hasUpdate
       THEN /\ coreFile' = documentOf(c_output)
            /\ c_writes' = c_writes + 1
            /\ c_signals' = c_signals \cup (IF envOutput THEN {<<"update_json", <<"true">> >>} ELSE {})
       ELSE UNCHANGED <<coreFile, c_writes, c_signals>>
    /\ c_pc' = "done"
    /\ UNCHANGED <<coreFile0, c_recomputed, c_triggered, c_error>>
    /\ UNCHANGED coreLocals

\* the next scheduled run of the workflow
CoreStartRun ==
    /\ c_pc \in {"done", "exit1"}
    /\ UNCHANGED coreOthers
    /\ c_pc' = "start"
    /\ coreFile0' = coreFile
    /\ c_currentInfo' = readLocalJson(MissingFile)
    /\ c_stableRelease' = NoRelease
    /\ c_allNull' = FALSE
    /\ c_alphaRelease' = NoRelease
    /\ c_alphaSource' = NoRelease
    /\ c_output' = initialOutput(readLocalJson(MissingFile), 0)
    /\ c_hasUpdate' = FALSE
    /\ c_signals' = {}
    /\ c_writes' = 0
    /\ c_recomputed' = {}
    /\ c_triggered' = {}
    /\ c_error' = "none"
    /\ c_previous' = IF c_pc = "done"
                    THEN [completed |-> TRUE, stableRelease |-> c_stableRelease,
                          alphaRelease |-> c_alphaRelease, alphaSource |-> c_alphaSource]
                    ELSE NoPreviousCore
    /\ UNCHANGED coreFile

CoreNext ==
    \/ MainRead
    \/ MainFetchStable
    \/ MainFetchAllNull
    \/ MainFetchAll
    \/ MainStable
    \/ MainAlpha
    \/ MainWrite
    \/ CoreStartRun

coreIdle ==
    /\ coreFile = MissingFile
    /\ coreFile0 = MissingFile
    /\ c_pc = "idle"
    /\ c_currentInfo = readLocalJson(MissingFile)
    /\ c_stableRelease = NoRelease
    /\ c_allNull = FALSE
    /\ c_alphaRelease = NoRelease
    /\ c_alphaSource = NoRelease
    /\ c_output = initialOutput(readLocalJson(MissingFile), 0)
    /\ c_hasUpdate = FALSE
    /\ c_signals = {}
    /\ c_writes = 0
    /\ c_recomputed = {}
    /\ c_triggered = {}
    /\ c_error = "none"
    /\ c_previous = NoPreviousCore

(***************************************************************************)
(* fetchJson of the rules updater (scripts/update_rules.js 28-62).         *)
(***************************************************************************)
MaxRetries == 4

DefaultRetries == 3

D1 == <<"2","0","2","4","-","0","1","-","0","2","T","0","3",":","0","4",":","0","5","Z">>
D2 == <<"2","0","2","4","-","0","1","-","0","2","T","0","3",":","0","4",":","0","6","Z">>

\* the committer dates the commit endpoint may report
CommitDates == {D1, D2}

NullJson == [ok |-> FALSE, body |-> <<>>]

Json(body) == [ok |-> TRUE, body |-> body]

\* one response of fetch(url): a parsed body; a 2xx whose body is not JSON; 404;
\* another non-success status; a rejected fetch
Responses ==
    {[kind |-> "ok", body |-> d] : d \in CommitDates}
        \cup {[kind |-> k, body |-> <<>>] : k \in {"bad_json", "404", "status", "network_error"}}

isNotFound_never(res) == FALSE

\* line 39: res.status === 404
isNotFound(res) == res.kind = "404"

isLastAttempt_offByOne(i, retries) == i = retries

\* line 52: i === retries - 1
isLastAttempt(i, retries) == i = retries - 1

\* line 58: sleep(1000 * (i + 1))
sleepMs(i) == 1000 * (i + 1)

RequestEvent(resp) == [type |-> "request", kind |-> resp.kind, body |-> resp.body, ms |-> 0]

SleepEvent(ms) == [type |-> "sleep", kind |-> "none", body |-> <<>>, ms |-> ms]

\* what fetchJson leaves alone when it runs on its own
fjOthers == <<envOutput, paVars, chVars, biVars, coreVars>>

fjInit ==
    /\ fj_pc = "attempt"
    /\ fj_retries \in 0..MaxRetries
    /\ fj_i = 0
    /\ fj_trace = <<>>
    /\ fj_result = NullJson

\* lines 29-56: one iteration of the loop body
FetchRequest ==
    /\ fj_pc = "attempt"
    /\ fj_i < fj_retries
    /\ \E resp \in Responses :
          /\ fj_trace' = Append(fj_trace, RequestEvent(resp))
          /\ IF resp.kind = "ok"
             THEN fj_pc' = "returned" /\ fj_result' = Json(resp.body)
             ELSE IF isNotFound(resp)
             THEN fj_pc' = "returned" /\ fj_result' = NullJson
             ELSE IF isLastAttempt(fj_i, fj_retries)
             THEN fj_pc' = "returned" /\ fj_result' = NullJson
             ELSE fj_pc' = "sleep" /\ UNCHANGED fj_result
    /\ UNCHANGED <<fj_retries, fj_i>>
    /\ UNCHANGED <<fjOthers, rulesVars>>

\* line 58 and the loop increment
FetchSleep ==
    /\ fj_pc = "sleep"
    /\ fj_trace' = Append(fj_trace, SleepEvent(sleepMs(fj_i)))
    /\ fj_i' = fj_i + 1
    /\ fj_pc' = "attempt"
    /\ UNCHANGED <<fj_retries, fj_result>>
    /\ UNCHANGED <<fjOthers, rulesVars>>

\* line 61: the loop condition fails
FetchLoopEnd ==
    /\ fj_pc = "attempt"
    /\ fj_i >= fj_retries
    /\ fj_pc' = "returned"
    /\ fj_result' = NullJson
    /\ UNCHANGED <<fj_retries, fj_i, fj_trace>>
    /\ UNCHANGED <<fjOthers, rulesVars>>

FetchNext ==
    \/ FetchRequest
    \/ FetchSleep
    \/ FetchLoopEnd

fjIdle ==
    /\ fj_pc = "idle"
    /\ fj_retries = DefaultRetries
    /\ fj_i = 0
    /\ fj_trace = <<>>
    /\ fj_result = NullJson

(***************************************************************************)
(* Rules updater: string literals and ordering.                            *)
(***************************************************************************)
Slash == "/"

S_srs == <<".","s","r","s">>
S_json == <<".","j","s","o","n">>
S_geoip == <<"g","e","o","i","p">>
S_geosite == <<"g","e","o","s","i","t","e">>
litePrefix == <<"g","e","o","-","l","i","t","e","/">>
fullPrefix == <<"g","e","o","/">>

\* String.prototype.localeCompare on the characters that occur in rule paths:
\* punctuation before digits before letters
Collation ==
    <<"-", ".", "/", "0", "1", "2", "3", "4", "5", "6", "7", "8", "9",
      "a", "b", "c", "d", "e", "f", "g", "h", "i", "j", "k", "l", "m",
      "n", "o", "p", "q", "r", "s", "t", "u", "v", "w", "x", "y", "z">>

charRank(c) == CHOOSE k \in 1..Len(Collation) : Collation[k] = c

\* a.localeCompare(b) < 0
RECURSIVE localeLess(_, _)
localeLess(a, b) ==
    IF b = <<>> THEN FALSE
    ELSE IF a = <<>> THEN TRUE
    ELSE IF Head(a) = Head(b) THEN localeLess(Tail(a), Tail(b))
    ELSE charRank(Head(a)) < charRank(Head(b))

\* Array.prototype.sort (stable) with the comparator key(a).localeCompare(key(b))
RECURSIVE insertSorted(_, _, _)
insertSorted(sorted, x, keyName) ==
    IF sorted = <<>> THEN <<x>>
    ELSE IF localeLess(x[keyName], Head(sorted)[keyName])
         THEN <<x>> \o sorted
         ELSE <<Head(sorted)>> \o insertSorted(Tail(sorted), x, keyName)

sortBy_insertionOrder(seq, keyName) == seq

RECURSIVE sortBy(_, _)
sortBy(seq, keyName) ==
    IF seq = <<>> THEN <<>>
    ELSE insertSorted(sortBy(SubSeq(seq, 1, Len(seq) - 1), keyName), seq[Len(seq)], keyName)

(***************************************************************************)
(* resolveFileType, resolveGeoType, buildRulesIndex (update_rules.js       *)
(* 64-142).                                                                *)
(***************************************************************************)
resolveFileType_neverAll(typeSet) == IF "source" \in typeSet THEN "source" ELSE "binary"

resolveFileType(typeSet) ==
    IF "binary" \in typeSet /\ "source" \in typeSet THEN "all"
    ELSE IF "source" \in typeSet THEN "source"
    ELSE "binary"

resolveGeoType(typeSet) ==
    IF "geoip" \in typeSet /\ "geosite" \in typeSet THEN "all"
    ELSE IF "geoip" \in typeSet THEN "geoip"
    ELSE IF "geosite" \in typeSet THEN "geosite"
    ELSE "all"

fileTypeOf(relPath) ==
    IF EndsWith(relPath, S_srs) THEN "binary"
    ELSE IF EndsWith(relPath, S_json) THEN "source"
    ELSE ""

geoTypeOf(category) ==
    IF Includes(category, S_geoip) THEN "geoip"
    ELSE IF Includes(category, S_geosite) THEN "geosite"
    ELSE ""

\* filename.replace(/\.(srs|json)$/, '')
nameOf(filename) ==
    IF EndsWith(filename, S_srs) THEN DropSuffix(filename, S_srs)
    ELSE IF EndsWith(filename, S_json) THEN DropSuffix(filename, S_json)
    ELSE filename

\* position of the record called name in the Map (0 if there is none)
recordIndex(ruleMap, name) ==
    IF \E k \in 1..Len(ruleMap) : ruleMap[k].name = name
    THEN CHOOSE k \in 1..Len(ruleMap) : ruleMap[k].name = name
    ELSE 0

\* the loop body, lines 84-131; ruleMap is the Map in insertion order
accumulate(ruleMap, item, prefix) ==
    IF item.type # "blob" THEN ruleMap
    ELSE IF ~StartsWith(item.path, prefix) THEN ruleMap
    ELSE LET relPath == SubSeq(item.path, Len(prefix) + 1, Len(item.path))
             fileType == fileTypeOf(relPath)
             parts == Split(relPath, Slash)
         IN IF fileType = "" THEN ruleMap
            ELSE IF Len(parts) < 2 THEN ruleMap
            ELSE LET category == parts[1]
                     filename == parts[2]
                     name == nameOf(filename)
                     geoType == geoTypeOf(category)
                     at == recordIndex(ruleMap, name)
                     record == IF at # 0 THEN ruleMap[at]
                               ELSE [name |-> name, fileTypes |-> {}, geoTypes |-> {},
                                     files |-> <<>>]
                     updated ==
                         [name |-> record.name,
                          fileTypes |-> record.fileTypes \cup {fileType},
                          geoTypes |-> IF geoType # "" THEN record.geoTypes \cup {geoType}
                                       ELSE record.geoTypes,
                          files |-> IF geoType # ""
                                    THEN Append(record.files,
                                                [path |-> item.path, fileType |-> fileType,
                                                 geoType |-> geoType])
                                    ELSE record.files]
                 IN IF at # 0 THEN [ruleMap EXCEPT ![at] = updated]
                    ELSE Append(ruleMap, updated)

RECURSIVE accumulateAll(_, _, _)
accumulateAll(ruleMap, treeItems, prefix) ==
    IF treeItems = <<>> THEN ruleMap
    ELSE accumulateAll(accumulate(ruleMap, Head(treeItems), prefix), Tail(treeItems), prefix)

resolveRecord(record) ==
    [name |-> record.name,
     fileType |-> resolveFileType(record.fileTypes),
     geoType |-> resolveGeoType(record.geoTypes),
     files |-> sortBy(record.files, "path")]

buildRulesIndex(treeItems, prefix) ==
    LET ruleMap == accumulateAll(<<>>, treeItems, prefix)
    IN sortBy([k \in 1..Len(ruleMap) |-> resolveRecord(ruleMap[k])], "name")

(***************************************************************************)
(* Inputs of buildRulesIndex: lists of distinct tree items, in every order.*)
(***************************************************************************)
MaxPaths == 3

Blob(path) == [type |-> "blob", path |-> path]

\* files of the extracted archive, as paths relative to its root
P_full_ip_srs == fullPrefix \o S_geoip \o <<Slash, "c", "n">> \o S_srs
P_full_ip_json == fullPrefix \o S_geoip \o <<Slash, "c", "n">> \o S_json
P_full_site_srs == fullPrefix \o S_geosite \o <<Slash, "c", "n">> \o S_srs
P_full_site_ex == fullPrefix \o S_geosite \o <<Slash, "e", "x">> \o S_srs
P_full_other == fullPrefix \o <<"m", "i", "s", "c", Slash, "z", "z">> \o S_srs
P_full_root == fullPrefix \o <<"r", "e", "a", "d", "m", "e">> \o S_json
P_full_nested == fullPrefix \o S_geoip \o <<Slash, "s", "u", "b", Slash, "a", "d">> \o S_srs
P_full_text == fullPrefix \o S_geoip \o <<Slash, "c", "n", ".", "t", "x", "t">>
P_full_other_cn == fullPrefix \o <<"m", "i", "s", "c", Slash, "c", "n">> \o S_json
P_lite_ip_srs == litePrefix \o S_geoip \o <<Slash, "c", "n">> \o S_srs
P_lite_ip_json == litePrefix \o S_geoip \o <<Slash, "c", "n">> \o S_json

PathPool ==
    {P_full_ip_srs, P_full_ip_json, P_full_site_srs, P_full_site_ex, P_full_other,
     P_full_root, P_full_nested, P_lite_ip_srs, P_lite_ip_json}

\* a directory entry of a tree listing
TreeEntry == [type |-> "tree", path |-> fullPrefix \o S_geoip]

ItemPool == {Blob(path) : path \in PathPool \cup {P_full_text, P_full_other_cn}} \cup {TreeEntry}

ItemLists ==
    UNION { {t \in [1..n -> ItemPool] : \A j, k \in 1..n : j # k => t[j] # t[k]}
            : n \in 0..MaxPaths }

biInit ==
    /\ bi_pc = "call"
    /\ bi_items \in ItemLists
    /\ bi_prefix \in {litePrefix, fullPrefix}
    /\ bi_result = <<>>

BuildRulesIndexCall ==
    /\ bi_pc = "call"
    /\ bi_result' = buildRulesIndex(bi_items, bi_prefix)
    /\ bi_pc' = "ret"
    /\ UNCHANGED <<bi_items, bi_prefix>>
    /\ UNCHANGED <<envOutput, paVars, chVars, coreVars, fjVars, rulesVars>>

biIdle ==
    /\ bi_pc = "idle"
    /\ bi_items = <<>>
    /\ bi_prefix = <<>>
    /\ bi_result = <<>>

(***************************************************************************)
(* main of the rules updater (update_rules.js 144-265).                    *)
(***************************************************************************)
MaxItems == 2

\* formatCommitTime: isoString.replace(/[-:TZ]/g, '')
RECURSIVE formatCommitTime(_)
formatCommitTime(isoString) ==
    IF isoString = <<>> THEN <<>>
    ELSE IF Head(isoString) \in {"-", ":", "T", "Z"} THEN formatCommitTime(Tail(isoString))
         ELSE <<Head(isoString)>> \o formatCommitTime(Tail(isoString))

Whitespace == {" ", "\n", "\t", "\r"}

\* String.prototype.trim
RECURSIVE trimStart(_)
trimStart(str) ==
    IF str # <<>> /\ Head(str) \in Whitespace THEN trimStart(Tail(str)) ELSE str

RECURSIVE trimEnd(_)
trimEnd(str) ==
    IF str # <<>> /\ str[Len(str)] \in Whitespace THEN trimEnd(SubSeq(str, 1, Len(str) - 1))
    ELSE str

trim(str) == trimEnd(trimStart(str))

\* the order in which the directory walk meets the files of the archive
Trees ==
    UNION { {t \in [1..n -> PathPool] : \A j, k \in 1..n : j # k => t[j] # t[k]}
            : n \in 0..MaxItems }

\* collectFiles(rootDir, prefix): the files below rootDir, as tree items
collectFiles(tree, prefix) ==
    LET below == SelectSeq(tree, LAMBDA path : StartsWith(path, prefix))
    IN [k \in 1..Len(below) |-> Blob(below[k])]

\* lines 209-213 for one archive content
indexTree(tree) ==
    [liteRules |-> buildRulesIndex(collectFiles(tree, litePrefix), litePrefix),
     fullRules |-> buildRulesIndex(collectFiles(tree, fullPrefix), fullPrefix)]

\* what lines 209-213 can compute, over the archive contents
TreeIndexes == {indexTree(tree) : tree \in Trees}

noRulesFound_wrongComparison(liteRules, fullRules) == Len(liteRules) < 0 /\ Len(fullRules) < 0

\* line 215
noRulesFound(liteRules, fullRules) == Len(liteRules) = 0 /\ Len(fullRules) = 0

everyFileTypeAll_vacuous(rules) == TRUE

everyFileTypeAll(rules) == \A k \in 1..Len(rules) : rules[k].fileType = "all"

indexOutput_noVersion(newVersion, rules) ==
    [exists |-> TRUE,
     version |-> <<>>,
     fileOnlyAll |-> Len(rules) > 0 /\ everyFileTypeAll(rules),
     rules |-> [k \in 1..Len(rules) |->
                  [name |-> rules[k].name, fileType |-> rules[k].fileType,
                   geoType |-> rules[k].geoType]]]

\* lines 222-244: liteOutput / fullOutput
indexOutput(newVersion, rules) ==
    [exists |-> TRUE,
     version |-> newVersion,
     fileOnlyAll |-> Len(rules) > 0 /\ everyFileTypeAll(rules),
     rules |-> [k \in 1..Len(rules) |->
                  [name |-> rules[k].name, fileType |-> rules[k].fileType,
                   geoType |-> rules[k].geoType]]]

MissingIndex == [exists |-> FALSE, version |-> <<>>, fileOnlyAll |-> FALSE, rules |-> <<>>]

MissingVersion == [exists |-> FALSE, content |-> <<>>]

\* lines 158-161
readCurrentVersion(file) == IF file.exists THEN trim(file.content) ELSE <<>>

rulesFiles == [lite |-> liteFile, full |-> fullFile, version |-> versionFile]

rulesOthers == <<envOutput, paVars, chVars, biVars, coreVars>>

rulesLocals == <<r_newVersion, r_liteRules, r_fullRules, r_indexed>>

\* no previous run, or one that ended in the catch
NoPreviousRules == [completed |-> FALSE, version |-> <<>>]

rulesInit ==
    /\ liteFile = MissingIndex
    /\ fullFile = MissingIndex
    /\ versionFile = MissingVersion
    /\ rulesFiles0 = [lite |-> MissingIndex, full |-> MissingIndex, version |-> MissingVersion]
    /\ r_pc = "start"
    /\ r_newVersion = <<>>
    /\ r_liteRules = <<>>
    /\ r_fullRules = <<>>
    /\ r_indexed = FALSE
    /\ r_signals = {}
    /\ r_written = <<>>
    /\ r_error = "none"
    /\ r_previous = NoPreviousRules

\* lines 149-150: the call of fetchJson(commitUrl)
RulesFetchCommit ==
    /\ r_pc = "start"
    /\ fj_pc = "idle"
    /\ fj_pc' = "attempt"
    /\ fj_retries' = DefaultRetries
    /\ fj_i' = 0
    /\ fj_trace' = <<>>
    /\ fj_result' = NullJson
    /\ r_pc' = "fetching"
    /\ UNCHANGED <<liteFile, fullFile, versionFile, rulesFiles0, r_signals, r_written, r_error>>
    /\ UNCHANGED rulesLocals
    /\ UNCHANGED rulesOthers
    /\ UNCHANGED r_previous

\* lines 151-166: the commit data, the new version and the version check
RulesCheckVersion ==
    /\ r_pc = "fetching"
    /\ fj_pc = "returned"
    /\ fj_pc' = "idle"
    /\ fj_trace' = <<>>
    /\ UNCHANGED <<fj_retries, fj_i, fj_result>>
    /\ IF ~fj_result.ok
       THEN /\ r_error' = "Commit fetch failed after retries"
            /\ r_pc' = "exit1"
            /\ UNCHANGED r_newVersion
       ELSE /\ r_newVersion' = formatCommitTime(fj_result.body)
            /\ r_pc' = IF readCurrentVersion(versionFile) = formatCommitTime(fj_result.body)
                       THEN "done" ELSE "download"
            /\ UNCHANGED r_error
    /\ UNCHANGED <<liteFile, fullFile, versionFile, rulesFiles0, r_liteRules, r_fullRules,
                   r_indexed, r_signals, r_written>>
    /\ UNCHANGED rulesOthers
    /\ UNCHANGED r_previous

\* lines 168-217: download and unpack the archive, index both scopes
RulesBuildIndexes ==
    /\ r_pc = "download"
    /\ \/ \E failure \in {"curl failed", "unzip failed", "Archive extract failed"} :
             /\ r_error' = failure
             /\ r_pc' = "exit1"
             /\ UNCHANGED <<r_liteRules, r_fullRules, r_indexed>>
       \/ \E index \in TreeIndexes :
             /\ r_liteRules' = index.liteRules
             /\ r_fullRules' = index.fullRules
             /\ r_indexed' = TRUE
             /\ IF noRulesFound(index.liteRules, index.fullRules)
                THEN r_error' = "No rules found! Check path prefix logic." /\ r_pc' = "exit1"
                ELSE r_pc' = "writeLite" /\ UNCHANGED r_error
    /\ UNCHANGED <<liteFile, fullFile, versionFile, rulesFiles0, r_newVersion, r_signals,
                   r_written>>
    /\ UNCHANGED <<fjVars, rulesOthers>>
    /\ UNCHANGED r_previous

\* line 246
RulesWriteLite ==
    /\ r_pc = "writeLite"
    /\ liteFile' = indexOutput(r_newVersion, r_liteRules)
    /\ r_written' = Append(r_written, "lite.json")
    /\ r_pc' = "writeFull"
    /\ UNCHANGED <<fullFile, versionFile, rulesFiles0, r_signals, r_error>>
    /\ UNCHANGED rulesLocals
    /\ UNCHANGED <<fjVars, rulesOthers>>
    /\ UNCHANGED r_previous

\* line 247
RulesWriteFull ==
    /\ r_pc = "writeFull"
    /\ fullFile' = indexOutput(r_newVersion, r_fullRules)
    /\ r_written' = Append(r_written, "full.json")
    /\ r_pc' = "writeVersion"
    /\ UNCHANGED <<liteFile, versionFile, rulesFiles0, r_signals, r_error>>
    /\ UNCHANGED rulesLocals
    /\ UNCHANGED <<fjVars, rulesOthers>>
    /\ UNCHANGED r_previous

\* lines 248-259
RulesWriteVersion ==
    /\ r_pc = "writeVersion"
    /\ versionFile' = [exists |-> TRUE, content |-> r_newVersion]
    /\ r_written' = Append(r_written, "rule.version")
    /\ r_signals' = r_signals \cup (IF envOutput THEN {<<"update_json", <<"true">> >>} ELSE {})
    /\ r_pc' = "done"
    /\ UNCHANGED <<liteFile, fullFile, rulesFiles0, r_error>>
    /\ UNCHANGED rulesLocals
    /\ UNCHANGED <<fjVars, rulesOthers>>
    /\ UNCHANGED r_previous

\* lines 246-248 and 261-264: a write fails, or the process is stopped before it
RulesInterrupted ==
    /\ r_pc \in {"writeLite", "writeFull", "writeVersion"}
    /\ r_error' = "interrupted"
    /\ r_pc' = "exit1"
    /\ UNCHANGED <<liteFile, fullFile, versionFile, rulesFiles0, r_signals, r_written>>
    /\ UNCHANGED rulesLocals
    /\ UNCHANGED <<fjVars, rulesOthers>>
    /\ UNCHANGED r_previous

\* the next scheduled run of the workflow
RulesStartRun ==
    /\ r_pc \in {"done", "exit1"}
    /\ r_pc' = "start"
    /\ rulesFiles0' = rulesFiles
    /\ r_newVersion' = <<>>
    /\ r_liteRules' = <<>>
    /\ r_fullRules' = <<>>
    /\ r_indexed' = FALSE
    /\ r_signals' = {}
    /\ r_written' = <<>>
    /\ r_error' = "none"
    /\ r_previous' = IF r_pc = "done"
                    THEN [completed |-> TRUE, version |-> r_newVersion]
                    ELSE NoPreviousRules
    /\ UNCHANGED <<liteFile, fullFile, versionFile>>
    /\ UNCHANGED <<fjVars, rulesOthers>>

\* main calls fetchJson with the default retries, for which the loop never ends by
\* its condition (line 61)
RulesNext ==
    \/ RulesFetchCommit
    \/ FetchRequest
    \/ FetchSleep
    \/ RulesCheckVersion
    \/ RulesBuildIndexes
    \/ RulesWriteLite
    \/ RulesWriteFull
    \/ RulesWriteVersion
    \/ RulesStartRun

\* runs of the rules updater in which a write can fail or the process be stopped
RulesInterruptibleNext ==
    \/ RulesFetchCommit
    \/ FetchRequest
    \/ FetchSleep
    \/ RulesCheckVersion
    \/ RulesBuildIndexes
    \/ RulesWriteLite
    \/ RulesWriteFull
    \/ RulesWriteVersion
    \/ RulesInterrupted
    \/ RulesStartRun

rulesIdle ==
    /\ liteFile = MissingIndex
    /\ fullFile = MissingIndex
    /\ versionFile = MissingVersion
    /\ rulesFiles0 = [lite |-> MissingIndex, full |-> MissingIndex, version |-> MissingVersion]
    /\ r_pc = "idle"
    /\ r_newVersion = <<>>
    /\ r_liteRules = <<>>
    /\ r_fullRules = <<>>
    /\ r_indexed = FALSE
    /\ r_signals = {}
    /\ r_written = <<>>
    /\ r_error = "none"
    /\ r_previous = NoPreviousRules

paIdle ==
    /\ pa_pc = "idle"
    /\ pa_form = [prefix |-> <<>>, tokens |-> <<>>, suffix |-> <<>>, marker |-> NoMarker, pos |-> 0]
    /\ pa_name = <<>>
    /\ pa_result = Null

vars == <<envOutput, paVars, chVars, biVars, coreVars, fjVars, rulesVars>>

ParseInit == paInit /\ chIdle /\ biIdle /\ coreIdle /\ fjIdle /\ rulesIdle /\ envOutput = FALSE

ParseNext == ParseAssetCall

SpecParse == ParseInit /\ [][ParseNext]_vars

ChannelInit == chInit /\ paIdle /\ biIdle /\ coreIdle /\ fjIdle /\ rulesIdle /\ envOutput = FALSE

ChannelNext == ProcessChannelCall

SpecChannel == ChannelInit /\ [][ChannelNext]_vars

IndexInit == biInit /\ paIdle /\ chIdle /\ coreIdle /\ fjIdle /\ rulesIdle /\ envOutput = FALSE

IndexNext == BuildRulesIndexCall

SpecIndex == IndexInit /\ [][IndexNext]_vars

CoreInit == coreInit /\ paIdle /\ chIdle /\ biIdle /\ fjIdle /\ rulesIdle /\ envOutput \in BOOLEAN

SpecCore == CoreInit /\ [][CoreNext]_vars

FetchInit == fjInit /\ paIdle /\ chIdle /\ biIdle /\ coreIdle /\ rulesIdle /\ envOutput = FALSE

SpecFetch == FetchInit /\ [][FetchNext]_vars

RulesInit == rulesInit /\ fjIdle /\ paIdle /\ chIdle /\ biIdle /\ coreIdle /\ envOutput \in BOOLEAN

SpecRules == RulesInit /\ [][RulesNext]_vars

\* interrupted runs are followed as the workflow starts them, with GITHUB_OUTPUT set
RulesInterruptibleInit ==
    rulesInit /\ fjIdle /\ paIdle /\ chIdle /\ biIdle /\ coreIdle /\ envOutput = TRUE

SpecRulesInterruptible == RulesInterruptibleInit /\ [][RulesInterruptibleNext]_vars

\* the two updaters of the repository: a behaviour is a sequence of runs of one of them
UpdatersInit ==
    /\ paIdle /\ chIdle /\ biIdle /\ fjIdle /\ envOutput \in BOOLEAN
    /\ \/ coreInit /\ rulesIdle
       \/ rulesInit /\ coreIdle

UpdatersNext ==
    \/ MainRead
    \/ MainFetchStable
    \/ MainFetchAllNull
    \/ MainFetchAll
    \/ MainStable
    \/ MainAlpha
    \/ MainWrite
    \/ CoreStartRun
    \/ RulesFetchCommit
    \/ FetchRequest
    \/ FetchSleep
    \/ RulesCheckVersion
    \/ RulesBuildIndexes
    \/ RulesWriteLite
    \/ RulesWriteFull
    \/ RulesWriteVersion
    \/ RulesStartRun

SpecUpdaters == UpdatersInit /\ [][UpdatersNext]_vars

Spec == SpecUpdaters

(***************************************************************************)
(* Claims about parseAsset.                                                *)
(***************************************************************************)
ContainsMarker(name) == \E m \in Markers : Includes(name, m)

someTokenHas(tokens, word) == \E k \in 1..Len(tokens) : Includes(tokens[k], word)

\* the arch the claim prescribes for a base arch and the tokens that follow it
ExpectedArch(base, variantTokens) ==
    IF variantTokens = <<>> THEN base
    ELSE IF someTokenHas(variantTokens, S_legacy) THEN base \o <<Dash>> \o S_legacy
    ELSE IF someTokenHas(variantTokens, S_softfloat) THEN base \o <<Dash>> \o S_softfloat
    ELSE base \o <<Dash>> \o Join(variantTokens, Dash)

\* C9: for a name sing-box-{os}-{arch}[-{variant tokens}].{zip|tar.gz} with os in
\* the scanned vocabulary and no rejection marker, parseAsset returns a descriptor
\* whose arch is the base arch without variant tokens, {base}-legacy when the variant
\* contains legacy (also next to softfloat), {base}-softfloat when it contains
\* softfloat and not legacy, and {base}-{variant} verbatim otherwise.
C9_VariantNormalization ==
    (pa_pc = "ret" /\ FixedForm(pa_form) /\ ~ContainsMarker(pa_name)) =>
        /\ pa_result.ok
        /\ pa_result.arch =
              ExpectedArch(pa_form.tokens[2], SubSeq(pa_form.tokens, 3, Len(pa_form.tokens)))

\* sing-box-linux-amd64-softfloat-legacy.zip parsed to arch amd64-legacy
C9_Witness ==
    /\ pa_pc = "ret"
    /\ pa_form.prefix = S_prefix /\ pa_form.suffix = S_zip /\ pa_form.marker = NoMarker
    /\ pa_form.tokens = <<S_linux, T_amd64, S_softfloat, S_legacy>>
    /\ pa_result.ok
    /\ pa_result.arch = T_amd64 \o <<Dash>> \o S_legacy

\* C10 (as claimed): parseAsset returns null for any name that contains android,
\* ios, sbom, .deb, .rpm, .apk or .ipk, wherever the marker occurs.
C10_MarkerAnywhereRejected ==
    (pa_pc = "ret" /\ ContainsMarker(pa_name)) => pa_result = Null

\* C10 (amended): parseAsset returns null for any name that contains android, ios
\* or sbom anywhere, or that ends with .deb, .rpm, .apk or .ipk.
C10_MarkerRejected ==
    (pa_pc = "ret"
        /\ \/ \E m \in MobileMarkers \cup SbomMarkers : Includes(pa_name, m)
           \/ \E m \in PackageMarkers : EndsWith(pa_name, m)) =>
        pa_result = Null

\* sing-box-linux-amd64.zip with sbom inserted inside the arch token is rejected,
\* although the name without the marker parses
C10_Witness ==
    /\ pa_pc = "ret"
    /\ pa_form.marker = S_sbom
    /\ pa_form.tokens = <<S_linux, T_amd64>>
    /\ pa_form.pos = Len(S_prefix) + Len(S_linux) + 3
    /\ parseAsset(BaseName(pa_form)).ok
    /\ pa_result = Null

\* index of the first token that is an upstream OS name (0 if there is none)
firstOsToken(tokens) ==
    IF \E k \in 1..Len(tokens) : InList(tokens[k], osList)
    THEN CHOOSE k \in 1..Len(tokens) :
            InList(tokens[k], osList) /\ \A j \in 1..(k - 1) : ~InList(tokens[j], osList)
    ELSE 0

\* C11: for every input string parseAsset returns null or a descriptor with os in
\* {windows, macos, linux, freebsd}, a non-empty arch and filename equal to the
\* input, and it never raises; a name whose OS token is darwin is output with os
\* macos, never darwin; arch is the arch token alone when no token follows it, and
\* otherwise the arch token alone or the arch token, a dash and a variant suffix.
C11_ParseAssetContract ==
    pa_pc = "ret" =>
        /\ \/ pa_result = Null
           \/ /\ pa_result.ok
              /\ pa_result.os \in canonicalOs
              /\ pa_result.os # S_darwin
              /\ pa_result.arch # <<>>
              /\ pa_result.filename = pa_name
        /\ (FixedForm(pa_form) /\ ~ContainsMarker(pa_name) /\ pa_form.tokens[1] = S_darwin) =>
              (pa_result.ok /\ pa_result.os = S_macos)
        /\ (pa_result.ok /\ pa_form.marker = NoMarker) =>
              LET tokens == pa_form.tokens
                  k == firstOsToken(tokens)
              IN /\ k # 0 /\ k + 1 <= Len(tokens)
                 /\ pa_result.os = (IF tokens[k] = S_darwin THEN S_macos ELSE tokens[k])
                 /\ Len(tokens) = k + 1 => pa_result.arch = tokens[k + 1]
                 /\ pa_result.arch # tokens[k + 1] =>
                       /\ Len(tokens) > k + 1
                       /\ StartsWith(pa_result.arch, tokens[k + 1] \o <<Dash>>)
                       /\ Len(pa_result.arch) > Len(tokens[k + 1]) + 1

\* sing-box-darwin-amd64.tar.gz parsed to macos / amd64, without a variant suffix
C11_Witness ==
    /\ pa_pc = "ret"
    /\ pa_form.prefix = S_prefix /\ pa_form.suffix = S_targz /\ pa_form.marker = NoMarker
    /\ pa_form.tokens = <<S_darwin, T_amd64>>
    /\ pa_result = [ok |-> TRUE, os |-> S_macos, arch |-> T_amd64, filename |-> pa_name]

(***************************************************************************)
(* Claims about processChannel.                                            *)
(***************************************************************************)
classified(asset) == parseAsset(asset.name).ok

keyOf(asset) == <<parseAsset(asset.name).os, parseAsset(asset.name).arch>>

downloadKeys(section) == {<<e.os, e.arch>> : e \in section.downloads}

\* assets k < j of the list that classify to the same (os, arch)
sameKeyPairs(assets) ==
    {p \in (1..Len(assets)) \X (1..Len(assets)) :
        /\ p[1] < p[2]
        /\ classified(assets[p[1]]) /\ classified(assets[p[2]])
        /\ keyOf(assets[p[1]]) = keyOf(assets[p[2]])}

stageFailures(assets) ==
    {k \in 1..Len(assets) : classified(assets[k]) /\ assets[k].pipeline # "ok"}

\* C1: in processChannel a failure of any pipeline stage for one asset (download,
\* unpack, binary not found) is non-fatal: processChannel still returns a manifest,
\* the failed asset contributes no entry and the assets after it are still processed.
\* Stated for asset lists without two assets of the same (os, arch).
C1_StageFailureNonFatal ==
    (ch_pc = "ret" /\ stageFailures(ch_assets) # {} /\ sameKeyPairs(ch_assets) = {}) =>
        /\ ch_out.thrown = "none"
        /\ \A k \in 1..Len(ch_assets) :
              classified(ch_assets[k]) =>
                 (keyOf(ch_assets[k]) \in downloadKeys(ch_out.result)
                     <=> ch_assets[k].pipeline = "ok")

\* C2: when two assets of one release classify to the same (os, arch) and every
\* pipeline stage succeeds, processChannel does not fail and downloads[os][arch]
\* holds the value produced for the later asset.
C2_DuplicateKeyLastWriteWins ==
    (ch_pc = "ret" /\ sameKeyPairs(ch_assets) # {} /\ stageFailures(ch_assets) = {}) =>
        /\ ch_out.thrown = "none"
        /\ \A p \in sameKeyPairs(ch_assets) :
              \E e \in ch_out.result.downloads :
                 /\ <<e.os, e.arch>> = keyOf(ch_assets[p[2]])
                 /\ e.url = canonicalUrl(ch_tag, parseAsset(ch_assets[p[2]].name))

\* {host}/{channel-repo}/releases/download/{tag}/core-{os}-{arch}.zip
ExpectedUrl(tag, os, arch) ==
    <<"https://github.com/", "Chen-ce/singularity-resources", "/releases/download/">> \o tag
        \o <<"/", "c", "o", "r", "e", "-">> \o os \o <<"-">> \o arch \o <<".", "z", "i", "p">>

succeededKeys(assets) ==
    {keyOf(assets[k]) : k \in {j \in 1..Len(assets) :
                                  classified(assets[j]) /\ assets[j].pipeline = "ok"}}

upstreamUrls(assets) == {assets[k].browser_download_url : k \in 1..Len(assets)}

\* C12: the DownloadMap returned by processChannel has an entry exactly for the
\* (os, arch) of the assets that classified and whose pipeline stages all succeeded,
\* one per key, each holding the canonical URL built from the release tag and the
\* descriptor and never the upstream URL; unclassifiable assets add nothing and raise
\* nothing, and a release without a classifiable asset yields a manifest with an
\* empty DownloadMap.
C12_DownloadMapContent ==
    ch_pc = "ret" =>
        /\ ch_out.thrown = "none" =>
              /\ ch_out.result.manifest /\ ch_out.result.tag = ch_tag
              /\ downloadKeys(ch_out.result) = succeededKeys(ch_assets)
              /\ Cardinality(ch_out.result.downloads) = Cardinality(succeededKeys(ch_assets))
              /\ \A e \in ch_out.result.downloads :
                    /\ e.url = ExpectedUrl(ch_tag, e.os, e.arch)
                    /\ e.url \notin upstreamUrls(ch_assets)
        /\ ch_out = processChannel(ch_tag, SelectSeq(ch_assets, classified))
        /\ (\A k \in 1..Len(ch_assets) : ~classified(ch_assets[k])) =>
              (ch_out.thrown = "none" /\ ch_out.result.manifest /\ ch_out.result.downloads = {})

\* the list [sing-box-linux-amd64.deb, sing-box-darwin-amd64.zip] yielded exactly
\* one entry, macos / amd64, with the canonical URL
C12_Witness ==
    /\ ch_pc = "ret"
    /\ Len(ch_assets) = 2
    /\ ~classified(ch_assets[1])
    /\ classified(ch_assets[2]) /\ ch_assets[2].pipeline = "ok"
    /\ ch_out.thrown = "none"
    /\ ch_out.result.downloads =
          {[os |-> S_macos, arch |-> T_amd64, url |-> ExpectedUrl(ch_tag, S_macos, T_amd64)]}

(***************************************************************************)
(* Claims about the core updater's main.                                   *)
(***************************************************************************)
Channels == {"stable", "alpha"}

\* the release metadata main compares for a channel
fetched(ch) == IF ch = "stable" THEN c_stableRelease ELSE c_alphaSource

persisted(ch) == IF ch = "stable" THEN coreFile0.stable ELSE coreFile0.alpha

emitted(ch) == IF ch = "stable" THEN coreFile.stable ELSE coreFile.alpha

tagUnchanged(ch) == fetched(ch).ok /\ fetched(ch).tag_name = persisted(ch).tag

tagChanged(ch) == fetched(ch).ok /\ fetched(ch).tag_name # persisted(ch).tag

persistedEmpty(ch) == ~persisted(ch).manifest \/ persisted(ch).downloads = {}

\* C3 (as claimed): a channel whose fetched tag equals the persisted tag is not
\* recomputed and its section of the manifest is the persisted one, also when the
\* other channel is recomputed; a channel whose tag changed is replaced.
C3_UnchangedTagCarriedOver ==
    c_pc = "done" =>
        \A ch \in Channels :
            /\ tagUnchanged(ch) => (ch \notin c_recomputed /\ emitted(ch) = persisted(ch))
            /\ tagChanged(ch) => (ch \in c_recomputed /\ emitted(ch).tag = fetched(ch).tag_name)

\* C3 (amended): as C3, except that the alpha channel with an unchanged tag is
\* recomputed when its persisted downloads are empty.
C3_UnchangedTagCarriedOverUnlessAlphaEmpty ==
    c_pc = "done" =>
        \A ch \in Channels :
            /\ (tagUnchanged(ch) /\ ~(ch = "alpha" /\ persistedEmpty(ch)))
                  => (ch \notin c_recomputed /\ emitted(ch) = persisted(ch))
            /\ (tagUnchanged(ch) /\ ch = "alpha" /\ persistedEmpty(ch))
                  => (ch \in c_recomputed /\ emitted(ch).tag = fetched(ch).tag_name)
            /\ tagChanged(ch) => (ch \in c_recomputed /\ emitted(ch).tag = fetched(ch).tag_name)

\* a run that rewrote the manifest for a new stable tag and carried the alpha
\* section, whose tag was unchanged, over from the persisted manifest
C3_Witness ==
    /\ c_pc = "done"
    /\ c_writes = 1
    /\ tagChanged("stable") /\ "stable" \in c_recomputed
    /\ tagUnchanged("alpha") /\ ~persistedEmpty("alpha")
    /\ "alpha" \notin c_recomputed
    /\ coreFile.alpha = coreFile0.alpha
    /\ coreFile.stable # coreFile0.stable

\* C4: for each channel, stable and alpha alike, recomputation is triggered whenever
\* release metadata is available and its tag differs from the persisted tag or the
\* persisted channel has no downloads, and for that channel only.
C4_RecomputeWhenChangedOrEmpty ==
    c_pc \in {"write", "done"} =>
        \A ch \in Channels :
            ch \in c_triggered <=> (fetched(ch).ok /\ (tagChanged(ch) \/ persistedEmpty(ch)))

\* C5: core_info.json is written at most once per run, and it is rewritten if and
\* only if at least one channel was recomputed in that run; otherwise it is untouched.
C5_WrittenIffRecomputed ==
    c_pc \in {"done", "exit1"} =>
        /\ c_writes <= 1
        /\ c_writes = 1 <=> c_recomputed # {}
        /\ c_writes = 0 => coreFile = coreFile0

\* C6: when a metadata retrieval yields no data the run does not abort: with the
\* stable release retrieved and the release list not, main still completes normally.
C6_NoDataDoesNotAbort ==
    (c_stableRelease.ok /\ c_allNull) => c_pc # "exit1"

signalled(key, value) == <<key, value>> \in c_signals

\* C20: a publish signal (do_stable=true with stable_tag, do_alpha=true with
\* alpha_tag) is emitted only in runs that end by writing core_info.json and
\* emitting update_json=true, and the written section of that channel carries the
\* signalled tag; no run ends with a publish signal and the manifest not rewritten.
C20_SignalOnlyWithWrite ==
    c_pc \in {"done", "exit1"} =>
        \A ch \in Channels :
            signalled("do_" \o ch, <<"true">>) =>
                /\ c_pc = "done"
                /\ c_writes = 1
                /\ signalled("update_json", <<"true">>)
                /\ signalled(ch \o "_tag", emitted(ch).tag)

(***************************************************************************)
(* Claims about buildRulesIndex.                                           *)
(***************************************************************************)
\* the characters of rule paths in code-unit order
CodeUnitOrder ==
    <<"-", ".", "/", "0", "1", "2", "3", "4", "5", "6", "7", "8", "9",
      "a", "b", "c", "d", "e", "f", "g", "h", "i", "j", "k", "l", "m",
      "n", "o", "p", "q", "r", "s", "t", "u", "v", "w", "x", "y", "z">>

codeUnit(c) == CHOOSE k \in 1..Len(CodeUnitOrder) : CodeUnitOrder[k] = c

\* a strictly precedes b in lexicographic order
LexLess(a, b) ==
    \/ Len(a) < Len(b) /\ SubSeq(b, 1, Len(a)) = a
    \/ \E k \in 1..Len(a) :
          /\ k <= Len(b)
          /\ SubSeq(a, 1, k - 1) = SubSeq(b, 1, k - 1)
          /\ codeUnit(a[k]) < codeUnit(b[k])

Permuted(seq, f) == [k \in 1..Len(seq) |-> seq[f[k]]]

PermutationsOf(n) == {f \in [1..n -> 1..n] : \A j, k \in 1..n : j # k => f[j] # f[k]}

segmentsOf(path, prefix) == Split(SubSeq(path, Len(prefix) + 1, Len(path)), "/")

\* a path the indexer retains: a file below the prefix, ending in .srs or .json,
\* with at least a category segment and a filename after the prefix
retainedPath(item, prefix) ==
    /\ item.type = "blob"
    /\ StartsWith(item.path, prefix)
    /\ EndsWith(item.path, <<".", "s", "r", "s">>) \/ EndsWith(item.path, <<".", "j", "s", "o", "n">>)
    /\ Len(segmentsOf(item.path, prefix)) >= 2

retainedPaths(items, prefix) ==
    {items[k].path : k \in {j \in 1..Len(items) : retainedPath(items[j], prefix)}}

\* the filename (final segment) of a path, without its extension
ruleNameOf(path, prefix) ==
    LET segments == segmentsOf(path, prefix)
        filename == segments[Len(segments)]
    IN IF EndsWith(filename, <<".", "s", "r", "s">>)
       THEN SubSeq(filename, 1, Len(filename) - 4)
       ELSE SubSeq(filename, 1, Len(filename) - 5)

formOf(path) == IF EndsWith(path, <<".", "s", "r", "s">>) THEN "binary" ELSE "source"

\* the categories whose marker the category segment of a path matches
categoriesOf(path, prefix) ==
    LET category == segmentsOf(path, prefix)[1]
    IN IF Includes(category, <<"g", "e", "o", "i", "p">>) THEN {"geoip"}
       ELSE IF Includes(category, <<"g", "e", "o", "s", "i", "t", "e">>) THEN {"geosite"}
       ELSE {}

\* every retained path is a category segment followed by a filename
flatInput(items, prefix) ==
    \A path \in retainedPaths(items, prefix) : Len(segmentsOf(path, prefix)) = 2

observedForms(items, prefix, name) ==
    {formOf(path) : path \in {q \in retainedPaths(items, prefix) : ruleNameOf(q, prefix) = name}}

observedCategories(items, prefix, name) ==
    UNION {categoriesOf(path, prefix) :
              path \in {q \in retainedPaths(items, prefix) : ruleNameOf(q, prefix) = name}}

\* all if both were observed, else the one observed
leastUpperBound(observed) == IF Cardinality(observed) = 1 THEN CHOOSE x \in observed : TRUE ELSE "all"

\* C14: for every record of buildRulesIndex, fileType is all iff both a .srs and a
\* .json file were observed for its name, else the single form observed; geoType is
\* all iff both a geoip and a geosite directory were observed for its name or no
\* marker matched for any of its files, else the single category observed.  Stated
\* for inputs whose retained paths are {category}/{filename}.
C14_TypeResolution ==
    (bi_pc = "ret" /\ flatInput(bi_items, bi_prefix)) =>
        \A r \in 1..Len(bi_result) :
            LET forms == observedForms(bi_items, bi_prefix, bi_result[r].name)
                categories == observedCategories(bi_items, bi_prefix, bi_result[r].name)
            IN /\ forms # {}
               /\ bi_result[r].fileType = leastUpperBound(forms)
               /\ bi_result[r].fileType = "all" <=> forms = {"binary", "source"}
               /\ bi_result[r].geoType = leastUpperBound(categories)
               /\ bi_result[r].geoType = "all" <=>
                     (categories = {"geoip", "geosite"} \/ categories = {})

\* geo/geoip/cn.srs + geo/geoip/cn.json + geo/geosite/ex.srs under geo/ gave
\* cn = (all, geoip) and ex = (binary, geosite)
C14_Witness ==
    /\ bi_pc = "ret"
    /\ bi_prefix = fullPrefix
    /\ bi_items = <<Blob(P_full_ip_srs), Blob(P_full_ip_json), Blob(P_full_site_ex)>>
    /\ Len(bi_result) = 2
    /\ bi_result[1].name = <<"c", "n">>
    /\ bi_result[1].fileType = "all" /\ bi_result[1].geoType = "geoip"
    /\ bi_result[2].name = <<"e", "x">>
    /\ bi_result[2].fileType = "binary" /\ bi_result[2].geoType = "geosite"

recordNames(result) == {result[r].name : r \in 1..Len(result)}

\* the places of the output at which a path is listed
listings(result, path) ==
    {place \in (1..Len(result)) \X (1..MaxPaths + 1) :
        /\ place[2] <= Len(result[place[1]].files)
        /\ result[place[1]].files[place[2]].path = path}

\* C16: every retained path is accumulated into the record named by its filename
\* (final segment) without the extension, also when it lies more than one directory
\* below the category segment; and names are unique within the output.
C16_NamedByFilename ==
    bi_pc = "ret" =>
        /\ recordNames(bi_result) =
              {ruleNameOf(path, bi_prefix) : path \in retainedPaths(bi_items, bi_prefix)}
        /\ \A path \in retainedPaths(bi_items, bi_prefix) :
              \A place \in listings(bi_result, path) :
                 bi_result[place[1]].name = ruleNameOf(path, bi_prefix)
        /\ Cardinality(recordNames(bi_result)) = Len(bi_result)

\* C17: every retained path is listed exactly once in the files of a record, also
\* when its category segment matches neither marker, so that a record's fileType and
\* geoType are the least upper bounds over exactly the files listed in it.
C17_FilesListComplete ==
    bi_pc = "ret" =>
        /\ \A path \in retainedPaths(bi_items, bi_prefix) :
              Cardinality(listings(bi_result, path)) = 1
        /\ \A r \in 1..Len(bi_result) :
              LET files == bi_result[r].files
              IN /\ bi_result[r].fileType =
                       leastUpperBound({files[k].fileType : k \in 1..Len(files)})
                 /\ bi_result[r].geoType =
                       leastUpperBound({files[k].geoType : k \in 1..Len(files)})

(***************************************************************************)
(* Claims about fetchJson of the rules updater.                            *)
(***************************************************************************)
requestCount(trace) == Cardinality({k \in 1..Len(trace) : trace[k].type = "request"})

retryable(kind) == kind \in {"bad_json", "status", "network_error"}

requestNumber(trace, k) == requestCount(SubSeq(trace, 1, k))

\* C18: a 404 response on any attempt ends the call at once with null, with no
\* further request and no delay after it; every other non-success status on a
\* non-final attempt is followed by a delay and another request.
C18_NotFoundEndsAtOnce ==
    fj_pc # "idle" =>
        \A k \in 1..Len(fj_trace) :
            /\ (fj_trace[k].type = "request" /\ fj_trace[k].kind = "404") =>
                  /\ k = Len(fj_trace)
                  /\ fj_pc = "returned"
                  /\ fj_result = NullJson
            /\ (fj_trace[k].type = "request" /\ fj_trace[k].kind = "status"
                    /\ requestNumber(fj_trace, k) < fj_retries) =>
                  /\ k = Len(fj_trace) => (fj_pc = "sleep" /\ ENABLED FetchSleep)
                  /\ k + 1 <= Len(fj_trace) => fj_trace[k + 1].type = "sleep"
                  /\ k + 1 = Len(fj_trace) => (fj_pc = "attempt" /\ ENABLED FetchRequest)
                  /\ k + 2 <= Len(fj_trace) => fj_trace[k + 2].type = "request"

\* with the default three attempts, a 503 was retried after 1 s and the 404 that
\* answered the second request ended the call with null, without a third request
C18_Witness ==
    /\ fj_pc = "returned"
    /\ fj_retries = DefaultRetries
    /\ Len(fj_trace) = 3
    /\ fj_trace[1].type = "request" /\ fj_trace[1].kind = "status"
    /\ fj_trace[2].type = "sleep"
    /\ fj_trace[3].type = "request" /\ fj_trace[3].kind = "404"
    /\ fj_result = NullJson

(***************************************************************************)
(* Claims about the rules updater's main.                                  *)
(***************************************************************************)
writtenIndexes == {file \in {liteFile, fullFile} : file.exists}

everyFormAll(index) == \A k \in 1..Len(index.rules) : index.rules[k].fileType = "all"

\* C15 (as claimed): in lite.json and full.json as written by the rules updater,
\* fileOnlyAll is true iff every record of the rules list has fileType all, for
\* every rules list including the empty one.
C15_HomogeneousIffEveryAll ==
    \A index \in writtenIndexes : index.fileOnlyAll <=> everyFormAll(index)

\* C15 (amended): fileOnlyAll is true iff the rules list is not empty and every
\* record of it has fileType all.
C15_HomogeneousIffNonEmptyAndEveryAll ==
    \A index \in writtenIndexes :
        index.fileOnlyAll <=> (Len(index.rules) > 0 /\ everyFormAll(index))

\* a run wrote lite.json with the single record cn of form all and the flag set,
\* and full.json with an empty rules list and the flag not set
C15_Witness ==
    /\ r_pc = "done"
    /\ r_written = <<"lite.json", "full.json", "rule.version">>
    /\ Len(liteFile.rules) = 1 /\ liteFile.rules[1].fileType = "all" /\ liteFile.fileOnlyAll
    /\ fullFile.rules = <<>> /\ ~fullFile.fileOnlyAll

writeOrder == <<"lite.json", "full.json", "rule.version">>

\* C19 (as claimed): across runs, interrupted ones included, whenever rule.version
\* holds a version, lite.json and full.json both carry that version.
C19_MarkerImpliesIndexesAtVersion ==
    versionFile.exists =>
        /\ liteFile.exists /\ liteFile.version = versionFile.content
        /\ fullFile.exists /\ fullFile.version = versionFile.content

\* C19 (amended): the files are written in the order lite.json, full.json,
\* rule.version; once a run has written rule.version all three carry that run's
\* version; a run interrupted between the writes leaves the marker of the run's
\* start, next to indexes that already carry the new version; and a run recomputes
\* exactly when the fetched version differs from the marker, skipping otherwise.
C19_MarkerWrittenLast ==
    /\ r_written = SubSeq(writeOrder, 1, Len(r_written))
    /\ Len(r_written) = 3 =>
          /\ versionFile = [exists |-> TRUE, content |-> r_newVersion]
          /\ liteFile.exists /\ liteFile.version = r_newVersion
          /\ fullFile.exists /\ fullFile.version = r_newVersion
    /\ Len(r_written) < 3 => versionFile = rulesFiles0.version
    /\ Len(r_written) >= 1 => (liteFile.exists /\ liteFile.version = r_newVersion)
    /\ Len(r_written) >= 2 => (fullFile.exists /\ fullFile.version = r_newVersion)
    /\ r_pc \in {"download", "writeLite", "writeFull", "writeVersion"} =>
          ~(versionFile.exists /\ versionFile.content = r_newVersion)
    /\ (r_pc = "done" /\ r_written = <<>>) =>
          (versionFile.exists /\ versionFile.content = r_newVersion
              /\ rulesFiles = rulesFiles0)

\* a run that found a new version was interrupted after writing lite.json: the
\* marker of the previous run is still in place, next to a lite.json of the new
\* version and a full.json of the old one
C19_Witness ==
    /\ r_pc = "exit1" /\ r_error = "interrupted"
    /\ r_written = <<"lite.json">>
    /\ versionFile.exists /\ versionFile = rulesFiles0.version
    /\ liteFile.version = r_newVersion /\ liteFile.version # versionFile.content
    /\ fullFile.version = versionFile.content

(***************************************************************************)
(* Claims about both updaters.                                             *)
(***************************************************************************)
\* C7: fatal conditions abort without touching persisted state: when both release
\* fetches of the core updater yield no data, or the rules updater finds no rule
\* record in either scope, the run exits non-zero and none of core_info.json,
\* lite.json, full.json and rule.version has been written.
C7_FatalLeavesStateUntouched ==
    /\ (~c_stableRelease.ok /\ c_allNull) =>
          (c_pc = "exit1" /\ c_writes = 0 /\ coreFile = coreFile0)
    /\ (r_indexed /\ Len(r_liteRules) = 0 /\ Len(r_fullRules) = 0) =>
          (r_pc = "exit1" /\ r_written = <<>> /\ rulesFiles = rulesFiles0)

\* a run of the core updater in which both fetches yielded no data ended with
\* exit code 1 and the manifest of an earlier run still in place
C7_Witness ==
    /\ c_pc = "exit1"
    /\ ~c_stableRelease.ok /\ c_allNull
    /\ coreFile.exists
    /\ coreFile.stable.manifest
    /\ coreFile = coreFile0

\* the core updater's run has made its decisions, after a run that completed
\* normally and fetched the same release metadata
coreRunRepeated ==
    /\ c_pc \in {"write", "done", "exit1"}
    /\ ~c_allNull
    /\ c_previous.completed
    /\ c_stableRelease = c_previous.stableRelease
    /\ c_alphaRelease = c_previous.alphaRelease
    /\ c_alphaSource = c_previous.alphaSource

\* the rules updater's run has made its version check, after a run that completed
\* normally and fetched the same commit version
rulesRunRepeated ==
    /\ r_pc \notin {"start", "fetching"}
    /\ r_previous.completed
    /\ r_newVersion = r_previous.version

coreRunIdle ==
    /\ c_triggered = {} /\ c_recomputed = {}
    /\ c_writes = 0 /\ coreFile = coreFile0
    /\ c_signals = {}
    /\ c_pc # "exit1"

rulesRunIdle ==
    /\ r_pc = "done"
    /\ ~r_indexed
    /\ r_written = <<>> /\ rulesFiles = rulesFiles0
    /\ r_signals = {}

\* C21 (as claimed): a run that follows a normally completed run and observes the
\* same upstream metadata recomputes nothing, writes no file and emits no signal,
\* whatever the first run produced, an empty DownloadMap included.
C21_FixedPoint ==
    /\ coreRunRepeated => coreRunIdle
    /\ rulesRunRepeated => rulesRunIdle

\* C21 (amended): as C21, except that an alpha channel whose persisted downloads
\* are missing or empty is recomputed again in every run that has alpha release
\* metadata; the stable channel is never recomputed in the repeated run.
C21_FixedPointUnlessAlphaEmpty ==
    /\ coreRunRepeated =>
          /\ "stable" \notin c_triggered
          /\ "alpha" \in c_triggered <=> (persistedEmpty("alpha") /\ c_alphaSource.ok)
          /\ c_triggered = {} => coreRunIdle
    /\ rulesRunRepeated => rulesRunIdle

\* a repeated run with stable and prerelease metadata available recomputed and
\* wrote nothing, although the stable channel it found persisted has no downloads
C21_Witness ==
    /\ c_pc = "done"
    /\ coreRunRepeated
    /\ c_stableRelease.ok /\ c_alphaRelease.ok
    /\ coreFile0.stable.manifest /\ coreFile0.stable.downloads = {}
    /\ ~persistedEmpty("alpha")
    /\ coreRunIdle
====
